---- MODULE Spec2Model ----
(***************************************************************************)
(* Verification model of the Sea-lionMCP server: the sliding-window rate   *)
(* limiter (src/utils/rateLimiter.ts) and the tool-call pipeline of        *)
(* SeaLionMCPServer (server.js) with its tools and upstream client.        *)
(***************************************************************************)
EXTENDS Integers, Sequences, FiniteSets, TLC

VARIABLES
  requests,     \* RateLimiter.requests: the timestamps of the admitted requests
  maxRequests,  \* RateLimiter.maxRequests
  windowMs,     \* RateLimiter.windowMs
  now,          \* the value Date.now() returns
  ticks,        \* how many times the clock has advanced
  lim,          \* the last direct call on the limiter: operation, time, history before, result
  probe,        \* a string handed to one of the two sanitizers, and what came back
  tools,        \* SeaLionMCPServer.tools: the names of the registered tools, in order
  proc,         \* the server process: its phase of startup, its environment, its exit code
  burst,        \* the rapid-fire test of the client: requests sent, whether one was refused
  pending,      \* the tool calls suspended at their call of the upstream API
  last          \* the last response the server gave, with the request it answers

limiterVars == <<requests, maxRequests, windowMs>>

vars == <<requests, maxRequests, windowMs, now, ticks, lim, probe, tools, proc, burst, pending, last>>

\* ---------------------------------------------------------------- bounds
MaxCap == 3        \* largest capacity a stand-alone limiter is constructed with
MaxWindow == 3     \* largest window a stand-alone limiter is constructed with
MaxTicks == 3      \* how many times the clock advances in a run
MaxPieces == 3     \* how many pieces a string handed to a sanitizer is put together from
MaxPending == 1    \* how many tool calls wait for the upstream API at a time
MaxStartCalls == 2  \* how many tool calls a run of the startup goes on to serve
MaxWindows == 2    \* how many whole windows pass while the server runs
MaxInFlight == 2   \* how many tool calls wait for the upstream API when calls overlap

\* ------------------------------------------------------- rate limiter
Max(a, b) == IF a >= b THEN a ELSE b

MinOf(S) == CHOOSE m \in S : \A x \in S : m <= x

Range(s) == {s[i] : i \in 1..Len(s)}

cleanupOldRequestsKeepCutoff(reqs, currentTime, window) ==
  LET cutoff == currentTime - window
      keep(t) == t >= cutoff
  IN  SelectSeq(reqs, keep)

cleanupOldRequestsEager(reqs, currentTime, window) ==
  LET cutoff == currentTime - window
      keep(t) == t > cutoff + 1
  IN  SelectSeq(reqs, keep)

\* requests.filter(req => req.timestamp > currentTime - windowMs)
cleanupOldRequests(reqs, currentTime, window) ==
  LET cutoff == currentTime - window
      keep(t) == t > cutoff
  IN  SelectSeq(reqs, keep)

allowRequestOffByOne(reqs, currentTime, cap, window) ==
  LET cleaned == cleanupOldRequests(reqs, currentTime, window)
  IN  IF Len(cleaned) <= cap
        THEN [requests |-> Append(cleaned, currentTime), ok |-> TRUE]
        ELSE [requests |-> cleaned, ok |-> FALSE]

\* allowRequest(): the history it leaves and the value it returns
allowRequest(reqs, currentTime, cap, window) ==
  LET cleaned == cleanupOldRequests(reqs, currentTime, window)
  IN  IF Len(cleaned) < cap
        THEN [requests |-> Append(cleaned, currentTime), ok |-> TRUE]
        ELSE [requests |-> cleaned, ok |-> FALSE]

getCurrentCountOfExpired(reqs, currentTime, window) ==
  LET cleaned == cleanupOldRequests(reqs, currentTime, window)
  IN  [requests |-> reqs, n |-> Len(reqs) - Len(cleaned)]

\* getCurrentCount(): prunes, then the length
getCurrentCount(reqs, currentTime, window) ==
  LET cleaned == cleanupOldRequests(reqs, currentTime, window)
  IN  [requests |-> cleaned, n |-> Len(cleaned)]

\* getRemainingRequests(): Math.max(0, maxRequests - getCurrentCount())
getRemainingRequests(reqs, currentTime, cap, window) ==
  LET c == getCurrentCount(reqs, currentTime, window)
  IN  [requests |-> c.requests, n |-> Max(0, cap - c.n)]

getTimeUntilResetOfNewest(reqs, currentTime, window) ==
  IF Len(reqs) = 0 THEN 0
  ELSE Max(0, reqs[Len(reqs)] + window - currentTime)

\* getTimeUntilReset(): no pruning; 0 when empty, else max(0, oldest + windowMs - now)
getTimeUntilReset(reqs, currentTime, window) ==
  IF Len(reqs) = 0 THEN 0
  ELSE LET oldestRequest == MinOf(Range(reqs))
           resetTime == oldestRequest + window
       IN  Max(0, resetTime - currentTime)

resetKeepsNewest(reqs) == IF reqs = <<>> THEN <<>> ELSE <<reqs[Len(reqs)]>>

\* reset(): lines 81-83
reset(reqs) == <<>>

\* ------------------------------------------------------------ strings
\* A string is the sequence of its characters.
UpperCase == <<"A","B","C","D","E","F","G","H","I","J","K","L","M","N","O","P","Q","R","S","T","U","V","W","X","Y","Z">>

LowerCase == <<"a","b","c","d","e","f","g","h","i","j","k","l","m","n","o","p","q","r","s","t","u","v","w","x","y","z">>

Digits == <<"0","1","2","3","4","5","6","7","8","9">>

UpperSet == Range(UpperCase)

LowerOf == [c \in UpperSet |-> LowerCase[CHOOSE i \in 1..Len(UpperCase) : UpperCase[i] = c]]

toLowerCase(c) == IF c \in UpperSet THEN LowerOf[c] ELSE c

AlnumSet == Range(UpperCase) \cup Range(LowerCase) \cup Range(Digits)

\* the class [a-zA-Z0-9]
IsAlnum(c) == c \in AlnumSet

\* the class \w
IsWord(c) == c \in AlnumSet \/ c = "_"

\* the class \s
IsSpace(c) == c \in {" ", "\t", "\n", "\r"}

IsQuote(c) == c \in {"'", "\""}

\* the class [a-zA-Z0-9_-]
IsTokenChar(c) == c \in AlnumSet \/ c \in {"_", "-"}

\* the class [:\s=]
IsSeparator(c) == c \in {":", "="} \/ IsSpace(c)

NotSpace(c) == ~IsSpace(c)

\* whether the literal lit stands in s at position i; ci: the flag i (ignore case)
LitAt(s, i, lit, ci) ==
  /\ i + Len(lit) - 1 <= Len(s)
  /\ \A k \in 1..Len(lit) :
       IF ci THEN toLowerCase(s[i + k - 1]) = toLowerCase(lit[k])
             ELSE s[i + k - 1] = lit[k]

\* the end (exclusive) of the longest run of characters of a class from position k
RunEnd(s, k, InClass(_)) ==
  MinOf({j \in k..(Len(s) + 1) : j = Len(s) + 1 \/ ~InClass(s[j])})

\* String.prototype.replace with a global pattern: MatchLen(s, i) is the length
\* of the pattern's match at position i, 0 when it does not match there
RECURSIVE replaceFrom(_, _, _, _)
replaceFrom(s, i, MatchLen(_, _), replacement) ==
  LET found == {j \in i..Len(s) : MatchLen(s, j) > 0}
  IN  IF found = {} THEN SubSeq(s, i, Len(s))
      ELSE LET j == MinOf(found)
           IN  SubSeq(s, i, j - 1) \o replacement
                 \o replaceFrom(s, j + MatchLen(s, j), MatchLen, replacement)

Contains(s, lit) == \E i \in 1..Len(s) : LitAt(s, i, lit, FALSE)

\* String.prototype.trim
trim(s) ==
  LET solid == {i \in 1..Len(s) : ~IsSpace(s[i])}
  IN  IF solid = {} THEN <<>>
      ELSE SubSeq(s, MinOf(solid), CHOOSE m \in solid : \A x \in solid : x <= m)

SCRIPT_OPEN == <<"<","s","c","r","i","p","t">>

SCRIPT_CLOSE == <<"<","/","s","c","r","i","p","t",">">>

JAVASCRIPT == <<"j","a","v","a","s","c","r","i","p","t",":">>

ON == <<"o","n">>

\* /<script\b[^<]*(?:(?!<\/script>)<[^<]*)*<\/script>/gi: from <script at a word
\* boundary to the first </script> after it
scriptBlockLen(s, i) ==
  IF LitAt(s, i, SCRIPT_OPEN, TRUE) /\ (i + 7 > Len(s) \/ ~IsWord(s[i + 7]))
    THEN LET closes == {j \in (i + 7)..Len(s) : LitAt(s, j, SCRIPT_CLOSE, TRUE)}
         IN  IF closes = {} THEN 0 ELSE MinOf(closes) + Len(SCRIPT_CLOSE) - i
    ELSE 0

\* /javascript:/gi
javascriptLen(s, i) == IF LitAt(s, i, JAVASCRIPT, TRUE) THEN Len(JAVASCRIPT) ELSE 0

\* /on\w+\s*=/gi
eventHandlerLen(s, i) ==
  IF LitAt(s, i, ON, TRUE)
    THEN LET w == RunEnd(s, i + 2, IsWord)
             e == RunEnd(s, w, IsSpace)
         IN  IF w > i + 2 /\ e <= Len(s) /\ s[e] = "=" THEN e + 1 - i ELSE 0
    ELSE 0

\* /['"]/g
quoteLen(s, i) == IF IsQuote(s[i]) THEN 1 ELSE 0

sanitizeStringNoQuotes(input) ==
  LET a == replaceFrom(input, 1, scriptBlockLen, <<>>)
      b == replaceFrom(a, 1, javascriptLen, <<>>)
      c == replaceFrom(b, 1, eventHandlerLen, <<>>)
  IN  trim(c)

\* sanitizeInput on a string: the four replacements, then trim
sanitizeString(input) ==
  LET a == replaceFrom(input, 1, scriptBlockLen, <<>>)
      b == replaceFrom(a, 1, javascriptLen, <<>>)
      c == replaceFrom(b, 1, eventHandlerLen, <<>>)
      d == replaceFrom(c, 1, quoteLen, <<>>)
  IN  trim(d)

SEALION_API_KEY == <<"S","E","A","L","I","O","N","_","A","P","I","_","K","E","Y">>

API_KEY == <<"A","P","I","_","K","E","Y">>

SK == <<"s","k","-">>

BEARER == <<"B","e","a","r","e","r">>

PASSWORD == <<"p","a","s","s","w","o","r","d">>

REDACTED == <<"[","R","E","D","A","C","T","E","D","]">>

BEARER_REDACTED == <<"B","e","a","r","e","r"," ","[","R","E","D","A","C","T","E","D","]">>

PASSWORD_REDACTED == <<"p","a","s","s","w","o","r","d",":"," ","[","R","E","D","A","C","T","E","D","]">>

\* the {32,} of the API-key pattern
KeyMinLength == 32

\* Array.from({ length: 15 }): the requests of the rapid-fire test
BurstLength == 15

\* /SEALION_API_KEY|API_KEY/gi
credentialNameLen(s, i) ==
  IF LitAt(s, i, SEALION_API_KEY, TRUE) THEN Len(SEALION_API_KEY)
  ELSE IF LitAt(s, i, API_KEY, TRUE) THEN Len(API_KEY) ELSE 0

\* /sk-[a-zA-Z0-9]{32,}/g
apiKeyLen(s, i) ==
  IF LitAt(s, i, SK, FALSE)
    THEN LET e == RunEnd(s, i + 3, IsAlnum)
         IN  IF e - (i + 3) >= KeyMinLength THEN e - i ELSE 0
    ELSE 0

\* /Bearer\s+[a-zA-Z0-9_-]+/gi
bearerLen(s, i) ==
  IF LitAt(s, i, BEARER, TRUE)
    THEN LET b == RunEnd(s, i + 6, IsSpace)
             e == RunEnd(s, b, IsTokenChar)
         IN  IF b > i + 6 /\ e > b THEN e - i ELSE 0
    ELSE 0

\* /password[:\s=]+[^\s]+/gi: the separators are taken greedily and given back
\* one at a time until a character that is not white space follows them
passwordLen(s, i) ==
  IF LitAt(s, i, PASSWORD, TRUE)
    THEN LET r == RunEnd(s, i + 8, IsSeparator)
             starts == {p \in (i + 9)..r : p <= Len(s) /\ ~IsSpace(s[p])}
         IN  IF starts = {} THEN 0
             ELSE LET p == CHOOSE m \in starts : \A x \in starts : x <= m
                  IN  RunEnd(s, p, NotSpace) - i
    ELSE 0

sanitizeOutputNoBearer(output) ==
  LET a == replaceFrom(output, 1, credentialNameLen, REDACTED)
      b == replaceFrom(a, 1, apiKeyLen, REDACTED)
  IN  replaceFrom(b, 1, passwordLen, PASSWORD_REDACTED)

\* sanitizeOutput on a string: the four replacements in the order of the code
sanitizeOutput(output) ==
  LET a == replaceFrom(output, 1, credentialNameLen, REDACTED)
      b == replaceFrom(a, 1, apiKeyLen, REDACTED)
      c == replaceFrom(b, 1, bearerLen, BEARER_REDACTED)
  IN  replaceFrom(c, 1, passwordLen, PASSWORD_REDACTED)

\* ------------------------------------------------- values and schemas
\* A JSON value of an argument object: a string, a number (in tenths, so that
\* 0.7 is 7 and 512 is 5120) or a boolean.
Str(s) == [k |-> "string", s |-> s, n |-> 0]

Num(tenths) == [k |-> "number", s |-> <<>>, n |-> tenths]

Bool(b) == [k |-> "boolean", s |-> <<>>, n |-> IF b THEN 1 ELSE 0]

EmptyObject == [x \in {} |-> Str(<<>>)]

Issue(path, message) == [path |-> path, message |-> message, keys |-> {}]

\* z.string().min(..).max(..), lengths in characters
StringField(name, presence, min, msgMin, max, msgMax) ==
  [name |-> name, kind |-> "string", presence |-> presence, default |-> Str(<<>>),
   int |-> FALSE, min |-> min, msgMin |-> msgMin, max |-> max, msgMax |-> msgMax,
   options |-> {}, msg |-> <<>>, capped |-> TRUE, custom |-> FALSE]

\* z.string().min(..) with no .max(..)
OpenStringField(name, presence, min, msgMin) ==
  [StringField(name, presence, min, msgMin, 0, <<>>) EXCEPT !.capped = FALSE]

\* z.enum(options, { errorMap }), with .default(..) or .optional()
EnumField(name, presence, default, options, msg) ==
  [name |-> name, kind |-> "enum", presence |-> presence, default |-> Str(default),
   int |-> FALSE, min |-> 0, msgMin |-> <<>>, max |-> 0, msgMax |-> <<>>,
   options |-> options, msg |-> msg, capped |-> FALSE, custom |-> TRUE]

\* z.enum(options) without an errorMap: zod words the issue itself, from the
\* list of the options
PlainEnumField(name, presence, default, options, list) ==
  [EnumField(name, presence, default, options, <<list>>) EXCEPT !.custom = FALSE]

\* z.number().int()?.min(..).max(..).default(..), in tenths
NumberField(name, default, int, min, msgMin, max, msgMax) ==
  [name |-> name, kind |-> "number", presence |-> "default", default |-> Num(default),
   int |-> int, min |-> min, msgMin |-> msgMin, max |-> max, msgMax |-> msgMax,
   options |-> {}, msg |-> <<>>, capped |-> TRUE, custom |-> FALSE]

\* z.boolean().default(..)
BooleanField(name, default) ==
  [name |-> name, kind |-> "boolean", presence |-> "default", default |-> Bool(default),
   int |-> FALSE, min |-> 0, msgMin |-> <<>>, max |-> 0, msgMax |-> <<>>,
   options |-> {}, msg |-> <<>>, capped |-> FALSE, custom |-> FALSE]

V3 == <<"v","3">>

V3_5 == <<"v","3",".","5">>

Models == {V3, V3_5}

ModelMessage == <<"Model must be either v3 or v3.5">>

SupportedLanguages ==
  { <<"e","n","g","l","i","s","h">>,
    <<"i","n","d","o","n","e","s","i","a","n">>,
    <<"t","h","a","i">>,
    <<"v","i","e","t","n","a","m","e","s","e">>,
    <<"f","i","l","i","p","i","n","o">>,
    <<"m","a","l","a","y">>,
    <<"b","u","r","m","e","s","e">>,
    <<"k","h","m","e","r">>,
    <<"l","a","o">>,
    <<"t","a","m","i","l">>,
    <<"c","h","i","n","e","s","e">> }

AnalysisTypes ==
  { <<"c","u","l","t","u","r","a","l","_","c","o","n","t","e","x","t">>,
    <<"s","o","c","i","a","l","_","n","o","r","m","s">>,
    <<"b","u","s","i","n","e","s","s","_","e","t","i","q","u","e","t","t","e">>,
    <<"l","a","n","g","u","a","g","e","_","u","s","a","g","e">>,
    <<"r","e","l","i","g","i","o","u","s","_","s","e","n","s","i","t","i","v","i","t","y">>,
    <<"g","e","n","e","r","a","t","i","o","n","a","l","_","d","i","f","f","e","r","e","n","c","e","s">>,
    <<"r","e","g","i","o","n","a","l","_","v","a","r","i","a","t","i","o","n","s">> }

Countries ==
  { <<"s","i","n","g","a","p","o","r","e">>,
    <<"m","a","l","a","y","s","i","a">>,
    <<"i","n","d","o","n","e","s","i","a">>,
    <<"t","h","a","i","l","a","n","d">>,
    <<"v","i","e","t","n","a","m">>,
    <<"p","h","i","l","i","p","p","i","n","e","s">>,
    <<"m","y","a","n","m","a","r">>,
    <<"c","a","m","b","o","d","i","a">>,
    <<"l","a","o","s">>,
    <<"b","r","u","n","e","i">> }

DetailLevels == { <<"b","r","i","e","f">>, <<"d","e","t","a","i","l","e","d">>, <<"c","o","m","p","r","e","h","e","n","s","i","v","e">> }

TextGenerationSchema ==
  << StringField("prompt", "required", 1, <<"Prompt cannot be empty">>, 10000, <<"Prompt too long">>),
     EnumField("model", "default", V3_5, Models, ModelMessage),
     NumberField("max_tokens", 5120, TRUE, 10, <<"Max tokens must be at least 1">>,
                 40960, <<"Max tokens cannot exceed 4096">>),
     NumberField("temperature", 7, FALSE, 0, <<"Temperature must be at least 0">>,
                 20, <<"Temperature cannot exceed 2">>),
     BooleanField("thinking_mode", TRUE),
     StringField("system_prompt", "optional", 0, <<>>, 5000, <<"System prompt too long">>) >>

TranslationSchema ==
  << StringField("text", "required", 1, <<"Text to translate cannot be empty">>,
                 5000, <<"Text too long for translation">>),
     EnumField("source_language", "required", <<>>, SupportedLanguages,
               <<"Source language must be one of: ", "english, indonesian, thai, vietnamese, filipino, malay, burmese, khmer, lao, tamil, chinese">>),
     EnumField("target_language", "required", <<>>, SupportedLanguages,
               <<"Target language must be one of: ", "english, indonesian, thai, vietnamese, filipino, malay, burmese, khmer, lao, tamil, chinese">>),
     EnumField("model", "default", V3_5, Models, ModelMessage),
     BooleanField("preserve_cultural_context", TRUE),
     BooleanField("formal_register", FALSE) >>

CulturalAnalysisSchema ==
  << StringField("content", "required", 1, <<"Content for analysis cannot be empty">>,
                 5000, <<"Content too long for analysis">>),
     EnumField("analysis_type", "default", <<"c","u","l","t","u","r","a","l","_","c","o","n","t","e","x","t">>, AnalysisTypes,
               <<"Analysis type must be one of: ", "cultural_context, social_norms, business_etiquette, language_usage, religious_sensitivity, generational_differences, regional_variations">>),
     EnumField("target_country", "optional", <<>>, Countries,
               <<"Target country must be one of: ", "singapore, malaysia, indonesia, thailand, vietnam, philippines, myanmar, cambodia, laos, brunei">>),
     EnumField("model", "default", V3_5, Models, ModelMessage),
     BooleanField("include_recommendations", TRUE),
     EnumField("detail_level", "default", <<"d","e","t","a","i","l","e","d">>, DetailLevels,
               <<"Detail level must be brief, detailed, or comprehensive">>) >>

\* CulturalAnalysisSchema as src/tools/culturalAnalysis.ts declares it: no
\* .max(), no errorMap and no .strict()
CulturalAnalysisSource ==
  << OpenStringField("content", "required", 1, <<"Content for analysis cannot be empty">>),
     PlainEnumField("analysis_type", "default", <<"c","u","l","t","u","r","a","l","_","c","o","n","t","e","x","t">>, AnalysisTypes,
                    "'cultural_context' | 'social_norms' | 'business_etiquette' | 'language_usage' | 'religious_sensitivity' | 'generational_differences' | 'regional_variations'"),
     PlainEnumField("target_country", "optional", <<>>, Countries,
                    "'singapore' | 'malaysia' | 'indonesia' | 'thailand' | 'vietnam' | 'philippines' | 'myanmar' | 'cambodia' | 'laos' | 'brunei'"),
     PlainEnumField("model", "default", V3_5, Models, "'v3' | 'v3.5'"),
     BooleanField("include_recommendations", TRUE),
     PlainEnumField("detail_level", "default", <<"d","e","t","a","i","l","e","d">>, DetailLevels,
                    "'brief' | 'detailed' | 'comprehensive'") >>

\* the issues zod raises for one key of the shape
fieldIssues(f, obj) ==
  IF f.name \notin DOMAIN obj
    THEN IF f.presence = "required"
           THEN << Issue(f.name, IF f.kind = "enum" /\ f.custom THEN f.msg ELSE <<"Required">>) >>
           ELSE <<>>
    ELSE LET v == obj[f.name]
         IN  CASE f.kind = "string" ->
                    IF v.k # "string"
                      THEN << Issue(f.name, <<"Expected string, received ", v.k>>) >>
                      ELSE (IF Len(v.s) < f.min
                              THEN << Issue(f.name, f.msgMin) >> ELSE <<>>)
                           \o (IF f.capped /\ Len(v.s) > f.max
                                 THEN << Issue(f.name, f.msgMax) >> ELSE <<>>)
               [] f.kind = "enum" ->
                    IF v.k = "string" /\ v.s \in f.options THEN <<>>
                    ELSE IF f.custom THEN << Issue(f.name, f.msg) >>
                    ELSE IF v.k # "string"
                      THEN << Issue(f.name, <<"Expected ">> \o f.msg \o <<", received ", v.k>>) >>
                    ELSE << Issue(f.name, <<"Invalid enum value. Expected ">> \o f.msg
                                            \o <<", received '", v.s, "'">>) >>
               [] f.kind = "number" ->
                    IF v.k # "number"
                      THEN << Issue(f.name, <<"Expected number, received ", v.k>>) >>
                      ELSE (IF f.int /\ v.n % 10 # 0
                              THEN << Issue(f.name, <<"Expected integer, received float">>) >>
                              ELSE <<>>)
                           \o (IF v.n < f.min THEN << Issue(f.name, f.msgMin) >> ELSE <<>>)
                           \o (IF v.n > f.max THEN << Issue(f.name, f.msgMax) >> ELSE <<>>)
               [] f.kind = "boolean" ->
                    IF v.k # "boolean"
                      THEN << Issue(f.name, <<"Expected boolean, received ", v.k>>) >>
                      ELSE <<>>

RECURSIVE shapeIssues(_, _, _)
shapeIssues(schema, i, obj) ==
  IF i > Len(schema) THEN <<>>
  ELSE fieldIssues(schema[i], obj) \o shapeIssues(schema, i + 1, obj)

parseFirstIssueOnly(schema, obj) ==
  LET names == {schema[i].name : i \in 1..Len(schema)}
      all == shapeIssues(schema, 1, obj)
      kept == {i \in 1..Len(schema) :
                 schema[i].name \in DOMAIN obj \/ schema[i].presence = "default"}
  IN  [issues |-> IF all = <<>> THEN <<>> ELSE << all[1] >>,
       data |-> [n \in {schema[i].name : i \in kept} |->
                   IF n \in DOMAIN obj THEN obj[n]
                   ELSE (CHOOSE f \in Range(schema) : f.name = n).default]]

\* schema.parse(args) of a strict z.object: every key of the shape is parsed
\* and every issue collected, a key the shape does not declare is an issue at
\* the root; the data carries the defaults
parse(schema, obj) ==
  LET names == {schema[i].name : i \in 1..Len(schema)}
      extra == DOMAIN obj \ names
      kept == {i \in 1..Len(schema) :
                 schema[i].name \in DOMAIN obj \/ schema[i].presence = "default"}
  IN  [issues |-> shapeIssues(schema, 1, obj)
                    \o (IF extra = {} THEN <<>>
                        ELSE << [path |-> "", keys |-> extra,
                                 message |-> <<"Unrecognized key(s) in object: ">>] >>),
       data |-> [n \in {schema[i].name : i \in kept} |->
                   IF n \in DOMAIN obj THEN obj[n]
                   ELSE (CHOOSE f \in Range(schema) : f.name = n).default]]

\* schema.parse(args) of a z.object that is not strict: a key the shape does
\* not declare is dropped from the data and raises no issue
parseStripping(schema, obj) ==
  [issues |-> shapeIssues(schema, 1, obj), data |-> parse(schema, obj).data]

\* sanitizeInput on the validated object: every string of it is sanitized,
\* numbers and booleans pass unchanged
sanitizeInput(input) ==
  [n \in DOMAIN input |->
     IF input[n].k = "string" THEN Str(sanitizeString(input[n].s)) ELSE input[n]]

\* ------------------------------------------------ tools and upstream client
TEXT_GENERATION == "sealion_generate_text"

TRANSLATE == "sealion_translate"

CULTURAL_ANALYSIS == "sealion_cultural_analysis"

setupToolsReordered == <<TRANSLATE, TEXT_GENERATION, CULTURAL_ANALYSIS>>

\* setupTools(): the registry, in the order of registration
setupTools == <<TEXT_GENERATION, TRANSLATE, CULTURAL_ANALYSIS>>

\* tool.inputSchema
inputSchema(name) ==
  CASE name = TEXT_GENERATION -> TextGenerationSchema
    [] name = TRANSLATE -> TranslationSchema
    [] name = CULTURAL_ANALYSIS -> CulturalAnalysisSchema

THE_TEXT_IS_ALREADY_IN == <<"T","h","e"," ","t","e","x","t"," ","i","s"," ","a","l","r","e","a","d","y"," ","i","n"," ">>

ORIGINAL_TEXT == <<"."," ","O","r","i","g","i","n","a","l"," ","t","e","x","t",":"," ">>

\* handleTranslation, lines 50-52: the answer given without a call upstream
sameLanguageText(args) ==
  THE_TEXT_IS_ALREADY_IN \o args["target_language"].s \o ORIGINAL_TEXT \o args["text"].s

returnsAtOnceNever(name, args) == FALSE

\* whether the handler returns before it calls client.generateText
returnsAtOnce(name, args) ==
  name = TRANSLATE /\ args["source_language"] = args["target_language"]

\* what the chat completion call comes back with
ContentReply(text) == [kind |-> "content", text |-> text]

ErrorReply(message) == [kind |-> "error", text |-> message]

NoReply == [kind |-> "none", text |-> <<>>]

Returned(text) == [ok |-> TRUE, text |-> text, parts |-> <<>>]

Thrown(parts, detail) == [ok |-> FALSE, text |-> detail, parts |-> parts]

\* SeaLionClient.generateText, from the answer of the API on: the content, or
\* the Error it throws (its message: the fixed parts, then the upstream text)
generateText(reply) ==
  IF reply.kind = "content" /\ reply.text # <<>> THEN Returned(reply.text)
  ELSE IF reply.kind = "content"
    THEN Thrown(<<"Sea-lion API request failed: ", "No content received from Sea-lion API">>, <<>>)
  ELSE IF Contains(reply.text, <<"4", "0", "1">>)
    THEN Thrown(<<"Invalid API key. Please check your Sea-lion API credentials.">>, <<>>)
  ELSE IF Contains(reply.text, <<"4", "2", "9">>)
    THEN Thrown(<<"Rate limit exceeded. Please wait before making another request.">>, <<>>)
  ELSE IF Contains(reply.text, <<"5", "0", "0">>)
    THEN Thrown(<<"Sea-lion API server error. Please try again later.">>, <<>>)
  ELSE Thrown(<<"Sea-lion API request failed: ">>, reply.text)

handlerReturnUntrimmed(name, generated) ==
  IF generated.ok THEN Returned(generated.text)
  ELSE Thrown(<<CASE name = TEXT_GENERATION -> "Text generation failed: "
                  [] name = TRANSLATE -> "Translation failed: "
                  [] OTHER -> "Cultural analysis failed: ">> \o generated.parts,
              generated.text)

\* the three handlers, from the return of client.generateText on
handlerReturn(name, generated) ==
  CASE name = TEXT_GENERATION ->
         IF generated.ok THEN Returned(generated.text)
         ELSE Thrown(<<"Text generation failed: ">> \o generated.parts, generated.text)
    [] name = TRANSLATE ->
         IF generated.ok THEN Returned(trim(generated.text))
         ELSE Thrown(<<"Translation failed: ">> \o generated.parts, generated.text)
    [] name = CULTURAL_ANALYSIS ->
         IF generated.ok THEN Returned(trim(generated.text))
         ELSE Thrown(<<"Cultural analysis failed: ">> \o generated.parts, generated.text)

\* ------------------------------------------------ the requests and answers
HELLO == <<"H","e","l","l","o">>

TEST == <<"T","e","s","t">>

ENGLISH == <<"e","n","g","l","i","s","h">>

THAI == <<"t","h","a","i">>

XSS_PROMPT == <<"<","s","c","r","i","p","t",">","a","l","e","r","t","(","\"","X","S","S","\"",")","<","/","s","c","r","i","p","t",">">>

QUOTED == <<"H","e"," ","s","a","i","d"," ","\"","h","i","\"">>

Args(fields) == [present |-> TRUE, fields |-> fields]

NoArgs == [present |-> FALSE, fields |-> EmptyObject]

\* the tool calls a client sends: those of security-tests.js and of the
\* end-to-end scenario, and one more per way a call can fail
ToolCalls ==
  { [name |-> TEXT_GENERATION, args |-> Args("prompt" :> Str(HELLO) @@ "model" :> Str(V3))],
    [name |-> TEXT_GENERATION, args |-> Args("prompt" :> Str(XSS_PROMPT) @@ "model" :> Str(V3))],
    [name |-> TEXT_GENERATION,
     args |-> Args("prompt" :> Str(<<>>) @@ "model" :> Str(<<"i","n","v","a","l","i","d","_","m","o","d","e","l">>))],
    [name |-> TEXT_GENERATION,
     args |-> Args("prompt" :> Str(TEST) @@ "max_tokens" :> Num(-10) @@ "temperature" :> Num(50))],
    [name |-> TEXT_GENERATION, args |-> Args("prompt" :> Num(50))],
    [name |-> TEXT_GENERATION, args |-> Args("prompt" :> Str(HELLO) @@ "stream" :> Bool(TRUE))],
    [name |-> TEXT_GENERATION, args |-> NoArgs],
    [name |-> TRANSLATE,
     args |-> Args("text" :> Str(HELLO) @@ "source_language" :> Str(<<"k","l","i","n","g","o","n">>)
                   @@ "target_language" :> Str(ENGLISH))],
    [name |-> TRANSLATE,
     args |-> Args("text" :> Str(HELLO) @@ "source_language" :> Str(ENGLISH)
                   @@ "target_language" :> Str(ENGLISH))],
    [name |-> TRANSLATE,
     args |-> Args("text" :> Str(QUOTED) @@ "source_language" :> Str(THAI)
                   @@ "target_language" :> Str(THAI))],
    [name |-> TRANSLATE,
     args |-> Args("text" :> Str(HELLO) @@ "source_language" :> Str(ENGLISH)
                   @@ "target_language" :> Str(THAI))],
    [name |-> TRANSLATE, args |-> Args("text" :> Str(HELLO) @@ "target_language" :> Str(THAI))],
    [name |-> CULTURAL_ANALYSIS,
     args |-> Args("content" :> Str(HELLO) @@ "detail_level" :> Str(<<"b","r","i","e","f">>))],
    [name |-> "nonexistent_tool", args |-> Args(EmptyObject)],
    [name |-> "nonexistent_tool", args |-> NoArgs] }

\* what the upstream API answers: a text, nothing, or an error with a message
UpstreamReplies ==
  { ContentReply(<<"H","i"," ","t","h","e","r","e">>),
    ContentReply(<<" ","H","i"," ","t","h","e","r","e","\n">>),
    ContentReply(<<"u","s","e"," ","S","E","A","L","I","O","N","_","A","P","I","_","K","E","Y"," ","s","k","-","a","1","B","2","a","1","B","2","a","1","B","2","a","1","B","2","a","1","B","2","a","1","B","2","a","1","B","2","a","1","B","2"," ","B","e","a","r","e","r"," ","a","b","c","-","1","2","3"," ","p","a","s","s","w","o","r","d",":"," ","h","u","n","t","e","r","2"," ","o","k">>),
    ContentReply(<<>>),
    ErrorReply(<<"4","0","1"," ","I","n","c","o","r","r","e","c","t"," ","A","P","I"," ","k","e","y"," ","p","r","o","v","i","d","e","d">>),
    ErrorReply(<<"4","2","9"," ","T","o","o"," ","M","a","n","y"," ","R","e","q","u","e","s","t","s">>),
    ErrorReply(<<"5","0","0"," ","I","n","t","e","r","n","a","l"," ","S","e","r","v","e","r"," ","E","r","r","o","r">>),
    ErrorReply(<<"5","0","3"," ","S","e","r","v","i","c","e"," ","U","n","a","v","a","i","l","a","b","l","e">>),
    ErrorReply(<<"4","0","3"," ","t","o","k","e","n"," ","B","e","a","r","e","r"," ","a","b","c","-","1","2","3"," ","r","e","j","e","c","t","e","d">>) }

\* ------------------------------------------------------ the tool-call handler
\* new McpError(code, message): the message is its fixed parts, the issues of
\* a ZodError, and the text taken over from the error that was caught
McpError(code, parts, issues, detail) ==
  [ok |-> FALSE, code |-> code, parts |-> parts, issues |-> issues, text |-> detail]

\* { content: [{ type: 'text', text }] }
Content(text) ==
  [ok |-> TRUE, code |-> "", parts |-> <<>>, issues |-> <<>>, text |-> text]

RateLimitErrorThrottled ==
  McpError("Throttled",
           <<"Rate limit exceeded. Please wait before making another request.">>, <<>>, <<>>)

\* line 75
RateLimitError ==
  McpError("InternalError",
           <<"Rate limit exceeded. Please wait before making another request.">>, <<>>, <<>>)

UnknownToolErrorInternal(name) ==
  McpError("InternalError", <<"Unknown tool: ", name>>, <<>>, <<>>)

\* line 80
UnknownToolError(name) ==
  McpError("MethodNotFound", <<"Unknown tool: ", name>>, <<>>, <<>>)

\* how far the handler has run for a request; calls counts the calls of
\* client.generateText made for it: the one the handler is suspended at
Step(request, admitted, trace, state, handlerArgs, result, outcome) ==
  [request |-> request, admitted |-> admitted, trace |-> trace, state |-> state,
   handlerArgs |-> handlerArgs, result |-> result, outcome |-> outcome,
   calls |-> IF state = "awaiting" THEN 1 ELSE 0]

\* lines 86-94: schema.parse, sanitizeInput, the call of tool.handler and, when
\* the handler returns at once, sanitizeOutput and the response
validateAndDispatch(request) ==
  LET validated == parse(inputSchema(request.name), request.args.fields)
  IN  IF validated.issues # <<>>
        THEN Step(request, TRUE, <<"admission", "resolution", "shape", "schema">>,
                  "failed", EmptyObject, <<>>,
                  McpError("InvalidParams", <<"Invalid parameters: ">>, validated.issues, <<>>))
        ELSE LET sanitizedArgs == sanitizeInput(validated.data)
                 upTo == <<"admission", "resolution", "shape", "schema",
                           "sanitizeInput", "dispatch">>
             IN  IF returnsAtOnce(request.name, sanitizedArgs)
                   THEN LET result == sameLanguageText(sanitizedArgs)
                        IN  Step(request, TRUE, upTo \o <<"sanitizeOutput", "response">>,
                                 "done", sanitizedArgs, result, Content(sanitizeOutput(result)))
                   ELSE Step(request, TRUE, upTo, "awaiting", sanitizedArgs, <<>>, Content(<<>>))

afterAdmissionShapeFirst(registry, request) ==
  IF ~request.args.present
    THEN Step(request, TRUE, <<"admission", "shape">>, "failed", EmptyObject, <<>>,
              McpError("InvalidParams",
                       <<"Tool arguments are required and must be an object">>, <<>>, <<>>))
  ELSE IF request.name \notin Range(registry)
    THEN Step(request, TRUE, <<"admission", "shape", "resolution">>, "failed", EmptyObject, <<>>,
              UnknownToolError(request.name))
  ELSE validateAndDispatch(request)

\* lines 77-85 of the handler, then the rest: tool lookup, shape check
afterAdmission(registry, request) ==
  IF request.name \notin Range(registry)
    THEN Step(request, TRUE, <<"admission", "resolution">>, "failed", EmptyObject, <<>>,
              UnknownToolError(request.name))
  ELSE IF ~request.args.present
    THEN Step(request, TRUE, <<"admission", "resolution", "shape">>, "failed", EmptyObject, <<>>,
              McpError("InvalidParams",
                       <<"Tool arguments are required and must be an object">>, <<>>, <<>>))
  ELSE validateAndDispatch(request)

\* afterAdmission for the registry of setupTools, worked out once per request
AdmittedCalls == [request \in ToolCalls |-> afterAdmission(setupTools, request)]

callToolCountsDenied(reqs, currentTime, cap, window, registry, request) ==
  LET admission == allowRequest(reqs, currentTime, cap, window)
  IN  [requests |-> IF admission.ok THEN admission.requests
                    ELSE admission.requests \o <<currentTime>>,
       step |-> IF ~admission.ok
                  THEN Step(request, FALSE, <<"admission">>, "failed", EmptyObject, <<>>,
                            RateLimitError)
                  ELSE IF registry = setupTools THEN AdmittedCalls[request]
                  ELSE afterAdmission(registry, request)]

callToolRefundsFailures(reqs, currentTime, cap, window, registry, request) ==
  LET admission == allowRequest(reqs, currentTime, cap, window)
      step == IF ~admission.ok
                THEN Step(request, FALSE, <<"admission">>, "failed", EmptyObject, <<>>,
                          RateLimitError)
                ELSE IF registry = setupTools THEN AdmittedCalls[request]
                ELSE afterAdmission(registry, request)
  IN  [requests |-> IF admission.ok /\ step.state = "failed"
                      THEN cleanupOldRequests(reqs, currentTime, window)
                      ELSE admission.requests,
       step |-> step]

\* the handler up to its first await: lines 71-92
callTool(reqs, currentTime, cap, window, registry, request) ==
  LET admission == allowRequest(reqs, currentTime, cap, window)
  IN  [requests |-> admission.requests,
       step |-> IF ~admission.ok
                  THEN Step(request, FALSE, <<"admission">>, "failed", EmptyObject, <<>>,
                            RateLimitError)
                  ELSE IF registry = setupTools THEN AdmittedCalls[request]
                  ELSE afterAdmission(registry, request)]

resumeToolUnsanitized(awaiting, reply) ==
  LET returned == handlerReturn(awaiting.request.name, generateText(reply))
  IN  IF returned.ok
        THEN [awaiting EXCEPT !.state = "done",
                              !.trace = @ \o <<"sanitizeOutput", "response">>,
                              !.result = returned.text,
                              !.outcome = Content(returned.text)]
        ELSE [awaiting EXCEPT !.state = "failed",
                              !.outcome = McpError("InternalError",
                                                   <<"Tool execution failed: ">> \o returned.parts,
                                                   <<>>, returned.text)]

resumeToolRetries(awaiting, reply) ==
  LET returned == handlerReturn(awaiting.request.name, generateText(reply))
  IN  IF returned.ok
        THEN [awaiting EXCEPT !.state = "done",
                              !.trace = @ \o <<"sanitizeOutput", "response">>,
                              !.result = returned.text,
                              !.outcome = Content(sanitizeOutput(returned.text))]
        ELSE [awaiting EXCEPT !.state = "failed",
                              !.calls = @ + 1,
                              !.outcome = McpError("InternalError",
                                                   <<"Tool execution failed: ">> \o returned.parts,
                                                   <<>>, returned.text)]

\* the handler from the return of tool.handler on: lines 92-114
resumeTool(awaiting, reply) ==
  LET returned == handlerReturn(awaiting.request.name, generateText(reply))
  IN  IF returned.ok
        THEN [awaiting EXCEPT !.state = "done",
                              !.trace = @ \o <<"sanitizeOutput", "response">>,
                              !.result = returned.text,
                              !.outcome = Content(sanitizeOutput(returned.text))]
        ELSE [awaiting EXCEPT !.state = "failed",
                              !.outcome = McpError("InternalError",
                                                   <<"Tool execution failed: ">> \o returned.parts,
                                                   <<>>, returned.text)]

\* the calls that wait for the upstream API
AwaitingCalls == {AdmittedCalls[r] : r \in {q \in ToolCalls : AdmittedCalls[q].state = "awaiting"}}

\* resumeTool, worked out once per suspended call and answer
ResumedCalls == [awaiting \in AwaitingCalls, reply \in UpstreamReplies |-> resumeTool(awaiting, reply)]

\* ------------------------------------------------ limiter operations
NoResponse ==
  [kind |-> "none", listed |-> <<>>,
   call |-> Step([name |-> "", args |-> [present |-> FALSE, fields |-> EmptyObject]],
                 FALSE, <<>>, "none", EmptyObject, <<>>, Content(<<>>)),
   reply |-> NoReply]

\* no server has been constructed
\* the process with its environment: whether a key is configured, whether the
\* upstream API can be reached, whether the server and the transport can be set up
Process(phase, apiKey, upstream, constructs, transport) ==
  [phase |-> phase, apiKey |-> apiKey, upstream |-> upstream, constructs |-> constructs,
   transport |-> transport, tested |-> "none", warned |-> FALSE, exitCode |-> 0]

\* the process once start() has returned, with a key and the API in reach
Running == [Process("running", TRUE, "up", TRUE, TRUE) EXCEPT !.tested = "ok"]

\* the rapid-fire test has not sent anything
NoBurst == [sent |-> 0, limited |-> FALSE]

NoServer ==
  /\ tools = <<>>
  /\ burst = NoBurst
  /\ proc = Process("none", FALSE, "down", FALSE, FALSE)
  /\ pending = <<>>
  /\ last = NoResponse

NoProbe == [fn |-> "none", input |-> <<>>, done |-> FALSE, output |-> <<>>]

\* What an observer of the limiter's calls remembers: n is a value a call
\* returned (-1 for none), at the time of that call, armed whether it is still
\* of use, log the admission times of the last window (at most maxRequests + 1
\* of them are kept), wasReset whether reset() was ever called.
NoObs == [n |-> -1, at |-> 0, armed |-> FALSE, log |-> <<>>, wasReset |-> FALSE]

\* prev is the operation called before this one; watch is what the observer
\* follows, obs what it remembers after the call and prior what it remembered
\* before
NoCall ==
  [op |-> "none", at |-> 0, before |-> <<>>, ok |-> FALSE, n |-> 0, prev |-> "none",
   watch |-> "none", obs |-> NoObs, prior |-> NoObs]

\* the observer's memory after the call op has returned ok (allowRequest) or n
\* (the queries):
\*   "count"  the last value of getCurrentCount(), forgotten at an admission or
\*            a reset
\*   "timer"  the last value of getTimeUntilReset() taken on a full history,
\*            forgotten at an admission or a reset
\*   "window" the admission times t with now - windowMs < t, whatever reset()
\*            did to the history
observe(op, ok, n) ==
  LET changes == op = "reset" \/ (op = "allowRequest" /\ ok)
      fresh(t) == t > now - windowMs
      recent == SelectSeq(lim.obs.log, fresh)
  IN  CASE lim.watch = "count" ->
             IF op = "getCurrentCount" THEN [lim.obs EXCEPT !.n = n]
             ELSE IF changes THEN NoObs ELSE lim.obs
        [] lim.watch = "timer" ->
             IF op = "getTimeUntilReset"
               THEN IF Len(requests) = maxRequests
                      THEN [lim.obs EXCEPT !.n = n, !.at = now, !.armed = TRUE]
                      ELSE NoObs
             ELSE IF changes THEN NoObs ELSE lim.obs
        [] lim.watch = "window" ->
             IF op = "allowRequest" /\ ok
               THEN [lim.obs EXCEPT !.log = IF Len(recent) > maxRequests THEN recent
                                            ELSE Append(recent, now)]
             ELSE IF op = "reset" THEN [lim.obs EXCEPT !.wasReset = TRUE]
             ELSE lim.obs
        [] OTHER -> lim.obs

Called(op, ok, n) ==
  [op |-> op, at |-> now, before |-> requests, ok |-> ok, n |-> n, prev |-> lim.op,
   watch |-> lim.watch, obs |-> observe(op, ok, n), prior |-> lim.obs]

\* new RateLimiter(maxRequests, windowMs)
LimiterInit ==
  /\ requests = <<>>
  /\ maxRequests \in 1..MaxCap
  /\ windowMs \in 1..MaxWindow
  /\ now = 0
  /\ ticks = 0
  /\ lim = NoCall
  /\ probe = NoProbe
  /\ NoServer

AllowRequest ==
  LET r == allowRequest(requests, now, maxRequests, windowMs)
  IN  /\ requests' = r.requests
      /\ lim' = Called("allowRequest", r.ok, 0)
      /\ UNCHANGED <<maxRequests, windowMs, now, ticks, probe, tools, proc, burst, pending, last>>

GetCurrentCount ==
  LET r == getCurrentCount(requests, now, windowMs)
  IN  /\ requests' = r.requests
      /\ lim' = Called("getCurrentCount", FALSE, r.n)
      /\ UNCHANGED <<maxRequests, windowMs, now, ticks, probe, tools, proc, burst, pending, last>>

GetRemainingRequests ==
  LET r == getRemainingRequests(requests, now, maxRequests, windowMs)
  IN  /\ requests' = r.requests
      /\ lim' = Called("getRemainingRequests", FALSE, r.n)
      /\ UNCHANGED <<maxRequests, windowMs, now, ticks, probe, tools, proc, burst, pending, last>>

GetTimeUntilReset ==
  /\ lim' = Called("getTimeUntilReset", FALSE, getTimeUntilReset(requests, now, windowMs))
  /\ UNCHANGED <<requests, maxRequests, windowMs, now, ticks, probe, tools, proc, burst, pending, last>>

Reset ==
  /\ requests' = reset(requests)
  /\ lim' = Called("reset", FALSE, 0)
  /\ UNCHANGED <<maxRequests, windowMs, now, ticks, probe, tools, proc, burst, pending, last>>

\* the clock moves forward between two calls
Tick ==
  /\ ticks < MaxTicks
  /\ \E d \in {1, windowMs - 1, windowMs} \ {0} : now' = now + d
  /\ ticks' = ticks + 1
  /\ UNCHANGED <<requests, maxRequests, windowMs, lim, probe, tools, proc, burst, pending, last>>

LimiterNext ==
  \/ AllowRequest
  \/ GetCurrentCount
  \/ GetRemainingRequests
  \/ GetTimeUntilReset
  \/ Reset
  \/ Tick

LimiterSpec == LimiterInit /\ [][LimiterNext]_vars

\* the same limiter with one of the observers switched on
WatchInit ==
  /\ requests = <<>>
  /\ maxRequests \in 1..MaxCap
  /\ windowMs \in 1..MaxWindow
  /\ now = 0
  /\ ticks = 0
  /\ \E watch \in {"count", "timer", "window"} : lim = [NoCall EXCEPT !.watch = watch]
  /\ probe = NoProbe
  /\ NoServer

WatchSpec == WatchInit /\ [][LimiterNext]_vars

\* new RateLimiter(maxRequests, windowMs) with any capacity from 0 on
AnyClockInit ==
  /\ requests = <<>>
  /\ maxRequests \in 0..MaxCap
  /\ windowMs \in 1..MaxWindow
  /\ now = 0
  /\ ticks = 0
  /\ lim = NoCall
  /\ probe = NoProbe
  /\ NoServer

\* Date.now() is the wall clock: it is set back between two calls
ClockSetBack ==
  /\ ticks < MaxTicks
  /\ \E t \in 0..(now - 1) : now' = t
  /\ ticks' = ticks + 1
  /\ UNCHANGED <<requests, maxRequests, windowMs, lim, probe, tools, proc, burst, pending, last>>

AnyClockNext ==
  \/ LimiterNext
  \/ ClockSetBack

AnyClockSpec == AnyClockInit /\ [][AnyClockNext]_vars

\* ------------------------------------------------------------ the server
\* new SeaLionMCPServer(): lines 23-40
Init ==
  /\ requests = <<>>
  /\ maxRequests = 10
  /\ windowMs = 60000
  /\ now = 0
  /\ ticks = 0
  /\ lim = NoCall
  /\ probe = NoProbe
  /\ tools = setupTools
  /\ proc = Running
  /\ burst = NoBurst
  /\ pending = <<>>
  /\ last = NoResponse

\* the response to a tools/list request: the handler of lines 60-68 gives the
\* listing and never an error
listResponse(registry) == [NoResponse EXCEPT !.kind = "list", !.listed = registry]

\* the ListToolsRequestSchema handler
ListTools ==
  /\ last' = listResponse(tools)
  /\ UNCHANGED <<requests, maxRequests, windowMs, now, ticks, lim, probe, tools, proc, burst, pending>>

\* what a run c of callTool leaves behind: the history, and either a suspended
\* call or a response
Served(c) ==
    /\ requests' = c.requests
    /\ IF c.step.state = "awaiting"
         THEN pending' = Append(pending, c.step) /\ last' = last
         ELSE pending' = pending
              /\ last' = [kind |-> "call", listed |-> <<>>, call |-> c.step, reply |-> NoReply]
    /\ UNCHANGED <<maxRequests, windowMs, now, ticks, lim, probe, tools, proc, burst>>

\* the CallToolRequestSchema handler, up to its answer or to its await
CallTool ==
  \E request \in ToolCalls :
    LET c == callTool(requests, now, maxRequests, windowMs, tools, request)
    IN  /\ Len(pending) < MaxPending
        /\ Served(c)

\* the handler of the i-th suspended call runs on with an answer of the API
Answer(i, reply) ==
    /\ pending' = SubSeq(pending, 1, i - 1) \o SubSeq(pending, i + 1, Len(pending))
    /\ last' = [kind |-> "call", listed |-> <<>>,
                call |-> IF pending[i] \in AwaitingCalls THEN ResumedCalls[pending[i], reply]
                         ELSE resumeTool(pending[i], reply),
                reply |-> reply]
    /\ UNCHANGED <<requests, maxRequests, windowMs, now, ticks, lim, probe, tools, proc, burst>>

\* the upstream API answers one of the suspended calls
UpstreamAnswers ==
  \E i \in 1..Len(pending), reply \in UpstreamReplies : Answer(i, reply)

\* a whole window of the limiter passes
WindowPasses ==
  /\ ticks < MaxWindows
  /\ now' = now + windowMs
  /\ ticks' = ticks + 1
  /\ UNCHANGED <<requests, maxRequests, windowMs, lim, probe, tools, proc, burst, pending, last>>

Next ==
  \/ ListTools
  \/ CallTool
  \/ UpstreamAnswers
  \/ WindowPasses

Spec == Init /\ [][Next]_vars

\* The server answers every request that reaches it, and time passes; when
\* the API answers is up to the API: the handler awaits
\* client.chat.completions.create with no timeout and no cancellation of its
\* own, so nothing in the server ends the wait.
LiveSpec == Spec /\ WF_vars(ListTools) /\ WF_vars(CallTool) /\ WF_vars(WindowPasses)

\* ------------------------------------------------------ concurrent callers
\* A tool call arrives while other calls are suspended at their upstream call:
\* the handler is an async function, and it runs from its entry to its first
\* await without yielding.
ConcurrentCall ==
  \E request \in ToolCalls :
    LET c == callTool(requests, now, maxRequests, windowMs, tools, request)
    IN  /\ c.step.state = "awaiting" => Len(pending) < MaxInFlight
        /\ Served(c)

ConcurrentNext ==
  \/ ConcurrentCall
  \/ UpstreamAnswers
  \/ WindowPasses

ConcurrentSpec == Init /\ [][ConcurrentNext]_vars

\* ------------------------------------------------------------ the startup
\* SeaLionClient.testConnection: what the test can come to. It fails without
\* a key before any request is made, and it fails when the API is out of reach.
testConnection(apiKey, upstream) ==
  IF ~apiKey \/ upstream = "down" THEN {FALSE} ELSE {TRUE, FALSE}

afterConnectionTestFatal(ok) == IF ok THEN "connecting" ELSE "failed"

\* start(), lines 227-233: the inner try and catch; the failure is logged and
\* start() goes on to the transport
afterConnectionTest(ok) == "connecting"

\* what the API answers the calls of a started server
repliesOf(apiKey, upstream) ==
  IF ~apiKey THEN {r \in UpstreamReplies : r.kind = "error" /\ SubSeq(r.text, 1, 3) = <<"4", "0", "1">>}
  ELSE IF upstream = "down"
    THEN {r \in UpstreamReplies : r.kind = "error" /\ SubSeq(r.text, 1, 3) = <<"5", "0", "3">>}
  ELSE UpstreamReplies

\* the process is launched in some environment
StartInit ==
  /\ requests = <<>>
  /\ maxRequests = 10
  /\ windowMs = 60000
  /\ now = 0
  /\ ticks = 0
  /\ lim = NoCall
  /\ probe = NoProbe
  /\ tools = <<>>
  /\ burst = NoBurst
  /\ pending = <<>>
  /\ last = NoResponse
  /\ \E apiKey \in BOOLEAN, upstream \in {"up", "down"}, constructs \in BOOLEAN,
        transport \in BOOLEAN :
        proc = Process("new", apiKey, upstream, constructs, transport)

\* main(), line 13: new SeaLionMCPServer(); the client warns when no key is set
Construct ==
  /\ proc.phase = "new"
  /\ IF proc.constructs
       THEN /\ proc' = [proc EXCEPT !.phase = "constructed", !.warned = ~proc.apiKey]
            /\ tools' = setupTools
       ELSE /\ proc' = [proc EXCEPT !.phase = "failed"]
            /\ tools' = tools
  /\ UNCHANGED <<requests, maxRequests, windowMs, now, ticks, lim, probe, burst, pending, last>>

\* start(), lines 227-233: the connection test
TestConnection ==
  /\ proc.phase = "constructed"
  /\ \E ok \in testConnection(proc.apiKey, proc.upstream) :
       proc' = [proc EXCEPT !.phase = afterConnectionTest(ok),
                            !.tested = IF ok THEN "ok" ELSE "failed",
                            !.warned = @ \/ ~ok]
  /\ UNCHANGED <<requests, maxRequests, windowMs, now, ticks, lim, probe, burst, tools, pending, last>>

\* start(), lines 234-243: the transport is created and connected, or the
\* failure is thrown on to main()
ConnectTransport ==
  /\ proc.phase = "connecting"
  /\ proc' = [proc EXCEPT !.phase = IF proc.transport THEN "running" ELSE "failed"]
  /\ UNCHANGED <<requests, maxRequests, windowMs, now, ticks, lim, probe, burst, tools, pending, last>>

\* main(), lines 17-20: process.exit(1)
ExitOnFailure ==
  /\ proc.phase = "failed"
  /\ proc' = [proc EXCEPT !.phase = "exited", !.exitCode = 1]
  /\ UNCHANGED <<requests, maxRequests, windowMs, now, ticks, lim, probe, burst, tools, pending, last>>

\* SIGINT or SIGTERM, lines 23-30: process.exit(0)
Shutdown ==
  /\ proc.phase \notin {"exited", "failed"}
  /\ proc' = [proc EXCEPT !.phase = "exited"]
  /\ UNCHANGED <<requests, maxRequests, windowMs, now, ticks, lim, probe, burst, tools, pending, last>>

\* the started server serves its first tool calls
StartedCall ==
  /\ proc.phase = "running"
  /\ Len(requests) < MaxStartCalls
  /\ CallTool

StartedAnswer ==
  /\ proc.phase = "running"
  /\ \E i \in 1..Len(pending), reply \in repliesOf(proc.apiKey, proc.upstream) : Answer(i, reply)

StartNext ==
  \/ Construct
  \/ TestConnection
  \/ ConnectTransport
  \/ ExitOnFailure
  \/ Shutdown
  \/ StartedCall
  \/ StartedAnswer

StartSpec == StartInit /\ [][StartNext]_vars

\* ------------------------------------------------- the rapid-fire test
\* whether a response includes 'Rate limit exceeded'
includesRateLimit(response) ==
  /\ response.kind = "call"
  /\ ~response.call.outcome.ok
  /\ response.call.outcome.parts[1] =
       "Rate limit exceeded. Please wait before making another request."

\* testRateLimiting, lines 162-169: one turn of the loop sends a tools/list
\* request and looks for 'Rate limit exceeded' in the response
BurstRequest ==
  /\ burst.sent < BurstLength /\ ~burst.limited
  /\ last' = listResponse(tools)
  /\ burst' = [sent |-> burst.sent + 1, limited |-> includesRateLimit(last')]
  /\ UNCHANGED <<requests, maxRequests, windowMs, now, ticks, lim, probe, tools, proc, pending>>

\* the test runs against a server that other clients call as well
BurstNext ==
  \/ BurstRequest
  \/ StartedCall
  \/ StartedAnswer

BurstSpec == Init /\ [][BurstNext]_vars

\* --------------------------------------------------- the two sanitizers
\* the string of the sanitization example
ScriptExample == <<"<","s","c","r","i","p","t",">","a","l","e","r","t","(","1",")","<","/","s","c","r","i","p","t",">","h","e","l","l","o">>

InputPieces ==
  { <<"<","s","c","r","i","p","t",">">>,
    <<"<","/","s","c","r","i","p","t",">">>,
    <<"<","s","c","r">>,
    <<"i","p","t",">">>,
    <<"h","e","l","l","o">>,
    <<"\"">>,
    <<"'">>,
    <<" ">>,
    <<"j","a","v","a","s","c","r","i","p","t",":">>,
    <<"o","n","l","o","a","d"," ","=">> }

OutputPieces ==
  { <<"S","E","A","L","I","O","N","_">>,
    <<"A","P","I","_","K","E","Y">>,
    <<"s","k","-">>,
    <<"a","a","a","a","a","a","a","a","a","a","a","a","a","a","a","a","a","a","a","a","a","a","a","a","a","a","a","a","a","a","a">>,
    <<"a">>,
    <<"B","e","a","r","e","r">>,
    <<" ">>,
    <<"p","a","s","s","w","o","r","d">>,
    <<":">> }

RECURSIVE Concats(_, _)
Concats(pieces, n) ==
  IF n = 0 THEN {<<>>}
  ELSE LET shorter == Concats(pieces, n - 1)
       IN  shorter \cup {p \o s : p \in pieces, s \in shorter}

InputStrings == Concats(InputPieces, MaxPieces) \cup {ScriptExample}

OutputStrings == Concats(OutputPieces, MaxPieces)

SanitizerInit ==
  /\ requests = <<>>
  /\ maxRequests = 1
  /\ windowMs = 1
  /\ now = 0
  /\ ticks = 0
  /\ lim = NoCall
  /\ NoServer
  /\ \/ \E s \in InputStrings :
          probe = [fn |-> "sanitizeInput", input |-> s, done |-> FALSE, output |-> <<>>]
     \/ \E s \in OutputStrings :
          probe = [fn |-> "sanitizeOutput", input |-> s, done |-> FALSE, output |-> <<>>]

SanitizeInput ==
  /\ probe.fn = "sanitizeInput" /\ ~probe.done
  /\ probe' = [probe EXCEPT !.done = TRUE, !.output = sanitizeString(probe.input)]
  /\ UNCHANGED <<requests, maxRequests, windowMs, now, ticks, lim, tools, proc, burst, pending, last>>

SanitizeOutput ==
  /\ probe.fn = "sanitizeOutput" /\ ~probe.done
  /\ probe' = [probe EXCEPT !.done = TRUE, !.output = sanitizeOutput(probe.input)]
  /\ UNCHANGED <<requests, maxRequests, windowMs, now, ticks, lim, tools, proc, burst, pending, last>>

SanitizerNext ==
  \/ SanitizeInput
  \/ SanitizeOutput

SanitizerSpec == SanitizerInit /\ [][SanitizerNext]_vars

\* ------------------------------------------------------ input validation
\* The repository holds the cultural analysis tool twice: the TypeScript source
\* and the compiled module the built server imports.  Which of the two a
\* deployment runs is decided by whether the build is fresh: build is "source"
\* or "compiled".
\* the schema createXTool hands to the registry as inputSchema in each build
inputSchemaOf(name, build) ==
  IF name = CULTURAL_ANALYSIS /\ build = "source" THEN CulturalAnalysisSource
  ELSE inputSchema(name)

\* tool.inputSchema.parse(args) in each build
schemaParse(name, build, obj) ==
  IF name = CULTURAL_ANALYSIS /\ build = "source"
    THEN parseStripping(CulturalAnalysisSource, obj)
    ELSE parse(inputSchema(name), obj)

\* convertZodToJsonSchema: what tools/list advertises for a ZodObject
convertZodToJsonSchema(schema) ==
  [type |-> "object",
   properties |-> {schema[k].name : k \in 1..Len(schema)},
   required |-> {schema[k].name : k \in {j \in 1..Len(schema) : schema[j].presence = "required"}},
   additionalProperties |-> FALSE]

\* handleTextGeneration, lines 58-63: the max_tokens and temperature of the
\* requestParams handed to client.generateText
requestParams(args) ==
  [max_tokens |-> args.max_tokens.n, temperature |-> args.temperature.n]

\* SeaLionClient.generateText, lines 83-88: the max_tokens and temperature of
\* the request sent to the API; a || b is b when a is 0 (numbers are in tenths)
sentParams(params) ==
  [max_tokens |-> IF params.max_tokens = 0 THEN 5120 ELSE params.max_tokens,
   temperature |-> IF params.temperature = 0 THEN 7 ELSE params.temperature]

\* max_tokens and temperature as a caller of text generation may set them:
\* not at all, or to the ends of their ranges, or to the default temperature
SamplingChoices ==
  {tokens @@ temperature :
     tokens \in {EmptyObject, "max_tokens" :> Num(10), "max_tokens" :> Num(40960)},
     temperature \in {EmptyObject, "temperature" :> Num(0), "temperature" :> Num(7),
                      "temperature" :> Num(20)}}

\* argument objects of the tool calls, with any of two keys no tool declares
\* added, for either build, and for text generation with the sampling
\* parameters set
ValidationInputs ==
  UNION {{[name |-> call.name, build |-> build,
           args |-> [k \in extras |-> Bool(TRUE)] @@ sampling @@ call.args.fields] :
            build \in {"source", "compiled"}, extras \in SUBSET {"stream", "debug"},
            sampling \in IF call.name = TEXT_GENERATION THEN SamplingChoices ELSE {EmptyObject}} :
         call \in {c \in ToolCalls : c.args.present /\ \E k \in 1..Len(setupTools) : setupTools[k] = c.name}}

ValidationInit ==
  /\ requests = <<>>
  /\ maxRequests = 1
  /\ windowMs = 1
  /\ now = 0
  /\ ticks = 0
  /\ lim = NoCall
  /\ NoServer
  /\ \E input \in ValidationInputs :
       probe = [fn |-> "parse", input |-> input, done |-> FALSE, output |-> <<>>]

\* the validation step of the CallTool handler, the schema the listing shows
\* for the same tool and, for a text generation that passes validation, the
\* sampling parameters of the request that goes to the API
Validate ==
  /\ probe.fn = "parse" /\ ~probe.done
  /\ LET parsed == schemaParse(probe.input.name, probe.input.build, probe.input.args)
         upstream == probe.input.name = TEXT_GENERATION /\ parsed.issues = <<>>
     IN  probe' = [probe EXCEPT
                     !.done = TRUE,
                     !.output = [parsed |-> parsed,
                                 advertised |-> convertZodToJsonSchema(
                                                  inputSchemaOf(probe.input.name,
                                                                probe.input.build)),
                                 upstream |-> upstream,
                                 sent |-> IF upstream
                                            THEN sentParams(requestParams(
                                                   sanitizeInput(parsed.data)))
                                            ELSE [max_tokens |-> 0, temperature |-> 0]]]
  /\ UNCHANGED <<requests, maxRequests, windowMs, now, ticks, lim, tools, proc, burst, pending, last>>

ValidationSpec == ValidationInit /\ [][Validate]_vars

\* ------------------------------------------------------------- claims

AllAt(reqs, t) == \A i \in 1..Len(reqs) : reqs[i] = t

AllExpired(reqs, t) == \A i \in 1..Len(reqs) : t - reqs[i] >= windowMs

\* C1: with N requests admitted at one instant, a further allowRequest() at
\* that instant is denied; once the clock is W or more past every admission,
\* currentCount() returns 0 and allowRequest() is admitted.
C1_SlidingWindow ==
  /\ (lim.op = "allowRequest" /\ Len(lim.before) = maxRequests /\ AllAt(lim.before, lim.at))
        => ~lim.ok
  /\ (lim.op = "getCurrentCount" /\ AllExpired(lim.before, lim.at)) => lim.n = 0
  /\ (lim.op = "allowRequest" /\ AllExpired(lim.before, lim.at)) => lim.ok

\* a full burst admitted at one instant has expired and the next request is admitted
C1_Witness ==
  /\ lim.op = "allowRequest" /\ lim.ok
  /\ Len(lim.before) = maxRequests
  /\ AllAt(lim.before, lim.before[1])
  /\ lim.at - lim.before[1] >= windowMs
  /\ requests = <<lim.at>>

InWindow(reqs, t) ==
  LET fresh(x) == t - x < windowMs IN SelectSeq(reqs, fresh)

\* C2: allowRequest() drops the expired timestamps, admits exactly when fewer
\* than maxRequests remain, appends the current time once on admission, and
\* leaves the history as it was when it returns false.
C2_AllowRequestEffect ==
  lim.op = "allowRequest" =>
    LET kept == InWindow(lim.before, lim.at)
    IN  /\ lim.ok <=> Len(kept) < maxRequests
        /\ lim.ok => requests = kept \o <<lim.at>>
        /\ ~lim.ok => requests = lim.before

\* a denied call made on a full history
C2_Witness ==
  /\ lim.op = "allowRequest" /\ ~lim.ok
  /\ Len(lim.before) = maxRequests
  /\ requests = lim.before
  /\ ~AllAt(lim.before, lim.at)

HasQuote(s) == \E i \in 1..Len(s) : s[i] \in {"'", "\""}

HasScriptTag(s) ==
  \E i \in 1..Len(s) : LitAt(s, i, SCRIPT_OPEN, TRUE) \/ LitAt(s, i, SCRIPT_CLOSE, TRUE)

IsCall == last.kind = "call"

Registered == {"sealion_generate_text", "sealion_translate", "sealion_cultural_analysis"}

PipelineOrder ==
  <<"admission", "resolution", "shape", "schema", "sanitizeInput", "dispatch",
    "sanitizeOutput", "response">>

IsPrefix(a, b) == Len(a) <= Len(b) /\ SubSeq(b, 1, Len(a)) = a

UpTo(step) ==
  SubSeq(PipelineOrder, 1, CHOOSE i \in 1..Len(PipelineOrder) : PipelineOrder[i] = step)

TypeOf(f) == IF f.kind = "enum" THEN "string" ELSE f.kind

\* the constraints of its schema that an argument object breaks, each with the
\* field and the reason the schema gives for it
Violations(request) ==
  LET obj == request.args.fields
      fields == Range(inputSchema(request.name))
      given == {f \in fields : f.name \in DOMAIN obj}
      typed == {f \in given : obj[f.name].k = TypeOf(f)}
  IN  {[field |-> f.name, reason |-> IF f.kind = "enum" THEN f.msg ELSE <<"Required">>] :
         f \in {g \in fields \ given : g.presence = "required"}}
      \cup {[field |-> f.name,
             reason |-> IF f.kind = "enum" THEN f.msg
                        ELSE <<"Expected " \o f.kind \o ", received ", obj[f.name].k>>] :
              f \in given \ typed}
      \cup {[field |-> f.name, reason |-> f.msg] :
              f \in {g \in typed : g.kind = "enum" /\ obj[g.name].s \notin g.options}}
      \cup {[field |-> f.name, reason |-> f.msgMin] :
              f \in {g \in typed : \/ g.kind = "string" /\ Len(obj[g.name].s) < g.min
                                   \/ g.kind = "number" /\ obj[g.name].n < g.min}}
      \cup {[field |-> f.name, reason |-> f.msgMax] :
              f \in {g \in typed : \/ g.kind = "string" /\ g.capped /\ Len(obj[g.name].s) > g.max
                                   \/ g.kind = "number" /\ obj[g.name].n > g.max}}

Undeclared(request) ==
  DOMAIN request.args.fields \ {f.name : f \in Range(inputSchema(request.name))}

UpstreamFails(reply) == reply.kind = "error" \/ (reply.kind = "content" /\ reply.text = <<>>)

\* the first step of the pipeline that fails for a request, "none" when none does
FirstFailure(call, reply) ==
  IF ~call.admitted THEN "admission"
  ELSE IF call.request.name \notin Registered THEN "resolution"
  ELSE IF ~call.request.args.present THEN "shape"
  ELSE IF Violations(call.request) # {} \/ Undeclared(call.request) # {} THEN "schema"
  ELSE IF UpstreamFails(reply) THEN "dispatch"
  ELSE "none"

\* the error each step fails with: its code and the start of its message
ErrorOf(step) ==
  CASE step = "admission" ->
         <<"InternalError", "Rate limit exceeded. Please wait before making another request.">>
    [] step = "resolution" -> <<"MethodNotFound", "Unknown tool: ">>
    [] step = "shape" -> <<"InvalidParams", "Tool arguments are required and must be an object">>
    [] step = "schema" -> <<"InvalidParams", "Invalid parameters: ">>
    [] step = "dispatch" -> <<"InternalError", "Tool execution failed: ">>

\* C3: a tool call runs admission, resolution, shape check, schema validation,
\* input sanitization, dispatch, output sanitization and response shaping in
\* that order and stops at the first step that fails; its error is that of the
\* earliest failing step, and a denied call runs nothing after admission.
C3_StrictOrder ==
  /\ \A i \in 1..Len(pending) :
       /\ pending[i].admitted
       /\ pending[i].trace = UpTo("dispatch")
       /\ FirstFailure(pending[i], NoReply) = "none"
  /\ IsCall =>
       LET call == last.call
           failing == FirstFailure(call, last.reply)
       IN  /\ IsPrefix(call.trace, PipelineOrder)
           /\ IF failing = "none"
                THEN call.outcome.ok /\ call.trace = PipelineOrder
                ELSE /\ ~call.outcome.ok
                     /\ call.trace = UpTo(failing)
                     /\ call.outcome.code = ErrorOf(failing)[1]
                     /\ call.outcome.parts[1] = ErrorOf(failing)[2]
           /\ ~call.admitted =>
                /\ call.trace = <<"admission">>
                /\ call.handlerArgs = EmptyObject
                /\ last.reply = NoReply

\* a denied call whose tool is unknown and whose arguments are missing
C3_Witness ==
  /\ IsCall /\ ~last.call.admitted
  /\ last.call.request.name \notin Registered
  /\ ~last.call.request.args.present
  /\ last.call.trace = <<"admission">>

\* C4 (as amended): a tool call denied by the rate limiter fails with the
\* classification InternalError, the one internal failures carry, and with the
\* message 'Rate limit exceeded. Please wait before making another request.';
\* its classification differs from MethodNotFound and InvalidParams only.
C4_ThrottledIsInternal ==
  (IsCall /\ ~last.call.admitted) =>
    /\ ~last.call.outcome.ok
    /\ last.call.outcome.code = "InternalError"
    /\ last.call.outcome.parts =
         <<"Rate limit exceeded. Please wait before making another request.">>

\* a call has been denied by the rate limiter
C4_Witness ==
  /\ IsCall /\ ~last.call.admitted
  /\ Len(requests) = maxRequests

\* C4 as stated: the classification of a denied call is none of not-found,
\* invalid-params and internal.
C4_AsStated ==
  (IsCall /\ ~last.call.admitted) =>
    /\ ~last.call.outcome.ok
    /\ last.call.outcome.code \notin {"MethodNotFound", "InvalidParams", "InternalError"}

\* C5 (as amended): a call admitted by the rate limiter that names a tool the
\* registry does not hold fails with MethodNotFound, 'Unknown tool: <name>'.
C5_UnknownTool ==
  (IsCall /\ last.call.admitted /\ last.call.request.name \notin Registered) =>
    /\ ~last.call.outcome.ok
    /\ last.call.outcome.code = "MethodNotFound"
    /\ last.call.outcome.parts = <<"Unknown tool: ", last.call.request.name>>

\* an admitted call of an unknown tool has failed
C5_Witness ==
  /\ IsCall /\ last.call.admitted
  /\ last.call.request.name = "nonexistent_tool"
  /\ last.call.outcome.code = "MethodNotFound"

\* C5 as stated: every call of a tool that is not in the registry fails with
\* MethodNotFound and not with InternalError.
C5_AsStated ==
  (IsCall /\ last.call.request.name \notin Registered) =>
    /\ last.call.outcome.code = "MethodNotFound"
    /\ last.call.outcome.code # "InternalError"

\* C6: an admitted call of a known tool whose arguments break the schema fails
\* with InvalidParams before the handler is invoked, and its message names
\* every violated field with the reason.
C6_SchemaRejection ==
  (/\ IsCall /\ last.call.admitted
   /\ last.call.request.name \in Registered
   /\ last.call.request.args.present
   /\ Violations(last.call.request) # {}) =>
    LET out == last.call.outcome
    IN  /\ ~out.ok
        /\ out.code = "InvalidParams"
        /\ "dispatch" \notin Range(last.call.trace)
        /\ last.call.handlerArgs = EmptyObject
        /\ last.reply = NoReply
        /\ \A v \in Violations(last.call.request) :
             \E i \in 1..Len(out.issues) :
               out.issues[i].path = v.field /\ out.issues[i].message = v.reason

\* the translation from 'klingon' has been rejected, and so has a call that
\* breaks two constraints at once
C6_Witness ==
  /\ IsCall /\ last.call.admitted
  /\ last.call.request.name = TRANSLATE
  /\ "source_language" \in DOMAIN last.call.request.args.fields
  /\ last.call.request.args.fields["source_language"] = Str(<<"k","l","i","n","g","o","n">>)
  /\ last.call.outcome.code = "InvalidParams"
  /\ \E i \in 1..Len(last.call.outcome.issues) :
       last.call.outcome.issues[i].path = "source_language"

\* the calls whose handler has been invoked
Dispatched ==
  Range(pending) \cup (IF IsCall /\ "dispatch" \in Range(last.call.trace) THEN {last.call} ELSE {})

\* C7 as stated: the arguments a handler receives are the output of input
\* sanitization and satisfy every constraint of the tool's schema.
C7_AsStated ==
  \A call \in Dispatched :
    LET schema == inputSchema(call.request.name)
    IN  /\ call.handlerArgs = sanitizeInput(parse(schema, call.request.args.fields).data)
        /\ parse(schema, call.handlerArgs).issues = <<>>

Sensitive(s) ==
  \E i \in 1..Len(s) :
    \/ credentialNameLen(s, i) > 0
    \/ apiKeyLen(s, i) > 0
    \/ bearerLen(s, i) > 0
    \/ passwordLen(s, i) > 0

\* no credential name, API key or bearer token is left in s, and what follows
\* a password is the marker
Redacted(s) ==
  \A i \in 1..Len(s) :
    /\ credentialNameLen(s, i) = 0
    /\ apiKeyLen(s, i) = 0
    /\ bearerLen(s, i) = 0
    /\ passwordLen(s, i) > 0 =>
         LitAt(s, i, PASSWORD_REDACTED, FALSE) /\ passwordLen(s, i) = Len(PASSWORD_REDACTED)

C10_AsStated ==
  (IsCall /\ ~last.call.outcome.ok) => ~Sensitive(last.call.outcome.text)

\* ---------------------------------------------- claims on failure isolation
ErrorCodes == {"MethodNotFound", "InvalidParams", "InternalError"}

\* a step in which a tool call fails: at once in the handler, or after the
\* answer of the upstream API
FailingStep ==
  /\ last'.kind = "call" /\ ~last'.call.outcome.ok
  /\ now' = now
  /\ Len(pending') <= Len(pending)
  /\ (last' # last \/ requests' # requests \/ pending' # pending)

\* the outcome a request would get from the handler in a state of the server
OutcomeIn(reqs, registry, request) ==
  callTool(reqs, now, maxRequests, windowMs, registry, request).step

\* C11 (as amended): every failure of a tool call is converted to a protocol
\* error and leaves the registry and the other suspended calls alone; a call
\* denied by the rate limiter leaves the limiter's history as it was, and a
\* call that fails after admission keeps its place in the history, so that a
\* following request is treated as before whenever the limiter admits it.
C11_FailureIsolated ==
  [][FailingStep =>
       /\ last'.call.outcome.code \in ErrorCodes
       /\ last'.call.outcome.parts # <<>>
       /\ tools' = tools
       /\ Range(pending') \subseteq Range(pending)
       /\ ~last'.call.admitted => requests' = requests /\ pending' = pending
       /\ last'.call.admitted =>
            \/ Len(pending') = Len(pending) - 1 /\ requests' = requests
            \/ pending' = pending /\ requests' = InWindow(requests, now) \o <<now>>
       /\ \A q \in ToolCalls :
            LET before == OutcomeIn(requests, tools, q)
                after == OutcomeIn(requests', tools', q)
            IN  /\ after.admitted => before.admitted /\ after = before
                /\ ~last'.call.admitted => after = before]_vars

\* a call has failed after admission and has taken the last place of the window
C11_Witness ==
  /\ IsCall /\ ~last.call.outcome.ok /\ last.call.admitted
  /\ last.reply = NoReply
  /\ Len(requests) = maxRequests
  /\ requests[Len(requests)] = now

\* C11 as stated: after a request fails at any step, a following request gets
\* the outcome it would have got had the failed request never been made.
C11_AsStated ==
  [][FailingStep =>
       \A q \in ToolCalls :
         OutcomeIn(requests', tools', q) = OutcomeIn(requests, tools, q)]_vars

\* C12: a completed tool call has exactly one outcome: a success payload whose
\* one text item holds the sanitized text of the handler and no error, or an
\* error with the code MethodNotFound, InvalidParams or InternalError and a
\* message, and no text of a handler's result.
C12_OneOutcome ==
  IsCall =>
    LET call == last.call
        out == call.outcome
    IN  \/ /\ out.ok
           /\ call.state = "done"
           /\ out.code = "" /\ out.parts = <<>> /\ out.issues = <<>>
           /\ out.text = sanitizeOutput(call.result)
           /\ "dispatch" \in Range(call.trace)
        \/ /\ ~out.ok
           /\ call.state = "failed"
           /\ out.code \in ErrorCodes
           /\ out.parts # <<>>
           /\ call.result = <<>>
           /\ "response" \notin Range(call.trace)

\* a call has succeeded with a text the upstream API gave
C12_Witness ==
  /\ IsCall /\ last.call.outcome.ok
  /\ last.reply.kind = "content"
  /\ last.call.result # <<>>
  /\ last.call.outcome.text = sanitizeOutput(last.call.result)
  /\ last.call.state = "done"

\* ------------------------------------------------- claims on the handlers
\* a translation call whose arguments are valid and name one language twice
SameLanguageCall(call) ==
  /\ call.request.name = TRANSLATE
  /\ call.request.args.present
  /\ Violations(call.request) = {} /\ Undeclared(call.request) = {}
  /\ call.request.args.fields["source_language"] = call.request.args.fields["target_language"]

\* C13 (as amended): an admitted translation call with valid arguments and
\* source_language equal to target_language makes no call upstream and
\* succeeds with 'The text is already in <language>. Original text: <text>'
\* passed through output sanitization, where <text> is the text after input
\* sanitization: it is the original text verbatim when neither sanitizer
\* changes it.
C13_SameLanguage ==
  /\ \A i \in 1..Len(pending) : ~SameLanguageCall(pending[i])
  /\ (IsCall /\ last.call.admitted /\ SameLanguageCall(last.call)) =>
       LET fields == last.call.request.args.fields
           answer == THE_TEXT_IS_ALREADY_IN \o fields["target_language"].s
                       \o ORIGINAL_TEXT \o sanitizeString(fields["text"].s)
       IN  /\ last.call.outcome.ok
           /\ last.reply = NoReply
           /\ last.call.result = answer
           /\ last.call.outcome.text = sanitizeOutput(answer)
           /\ (sanitizeString(fields["text"].s) = fields["text"].s
                 /\ sanitizeOutput(answer) = answer) =>
                Contains(last.call.outcome.text, ORIGINAL_TEXT \o fields["text"].s)

\* the same-language answer has been given for a text that sanitization changes
C13_Witness ==
  /\ IsCall /\ last.call.admitted /\ SameLanguageCall(last.call)
  /\ last.call.request.args.fields["text"].s = QUOTED
  /\ last.call.outcome.ok
  /\ last.reply = NoReply

\* C13 as stated: the same-language response contains the original text
\* verbatim, and no call upstream is made.
C13_AsStated ==
  (IsCall /\ last.call.admitted /\ SameLanguageCall(last.call)) =>
    /\ last.call.outcome.ok
    /\ last.reply = NoReply
    /\ Contains(last.call.outcome.text, last.call.request.args.fields["text"].s)

\* C14 (as amended): an invocation of a tool handler calls generateText of the
\* upstream client at most once and never again after a failure: once, whether
\* the call succeeds or fails, except for a translation between one language
\* and itself, which returns without any call.
C14_OneUpstreamCall ==
  /\ \A i \in 1..Len(pending) : pending[i].calls = 1
  /\ \A call \in Dispatched :
       /\ call.calls = IF SameLanguageCall(call) THEN 0 ELSE 1
       /\ (call.state # "awaiting" /\ call.calls = 1) => last.reply # NoReply
       /\ call.calls = 0 => last.reply = NoReply /\ call.outcome.ok
  /\ (IsCall /\ "dispatch" \notin Range(last.call.trace)) => last.call.calls = 0

\* a handler has failed on an upstream error after its one call
C14_Witness ==
  /\ IsCall /\ ~last.call.outcome.ok
  /\ "dispatch" \in Range(last.call.trace)
  /\ last.reply.kind = "error"
  /\ last.call.calls = 1

\* C14 as stated: every invocation of a handler makes exactly one call of
\* generateText.
C14_AsStated ==
  \A call \in Dispatched : call.calls = 1

\* ------------------------------------------- claims on the upstream client
\* C15 as stated: an upstream failure is classified by its status: 401 gives
\* the authentication message, 429 the throttling message, any 5xx status the
\* server-error message and anything else, missing content included, the
\* generic message; the call is made once.
C15_AsStated ==
  LET status == SubSeq(last.reply.text, 1, 3)
      message ==
        IF last.reply.kind = "content" THEN "Sea-lion API request failed: "
        ELSE IF status = <<"4", "0", "1">>
          THEN "Invalid API key. Please check your Sea-lion API credentials."
        ELSE IF status = <<"4", "2", "9">>
          THEN "Rate limit exceeded. Please wait before making another request."
        ELSE IF status[1] = "5"
          THEN "Sea-lion API server error. Please try again later."
        ELSE "Sea-lion API request failed: "
  IN  (IsCall /\ UpstreamFails(last.reply)) =>
        /\ ~last.call.outcome.ok
        /\ last.call.outcome.parts[3] = message
        /\ last.call.calls = 1

\* ------------------------------------------------- claims on the startup
\* C16: a failed connection test, a missing key included, does not keep the
\* server from starting: start() goes on to the transport and the process runs,
\* and the tool calls made then fail one by one; the process fails and exits
\* with a non-zero code only when the server or the transport cannot be set up.
C16_DegradedStart ==
  /\ proc.phase = "failed" => ~proc.constructs \/ ~proc.transport
  /\ proc.exitCode # 0 =>
       proc.phase = "exited" /\ proc.exitCode = 1 /\ (~proc.constructs \/ ~proc.transport)
  /\ proc.tested = "failed" =>
       /\ proc.warned
       /\ proc.phase \in {"connecting", "running", "exited"} \/ ~proc.transport
  /\ (proc.constructs /\ proc.transport /\ proc.phase = "exited") => proc.exitCode = 0
  /\ proc.phase = "running" => tools = setupTools /\ proc.tested # "none"
  /\ (proc.phase = "running" /\ (~proc.apiKey \/ proc.upstream = "down")
        /\ IsCall /\ last.reply # NoReply) =>
       /\ ~last.call.outcome.ok
       /\ last.call.outcome.code = "InternalError"
  /\ (IsCall \/ pending # <<>>) => proc.phase \in {"running", "exited"} /\ proc.exitCode = 0

\* the server runs without a key after a failed connection test, and a tool
\* call has failed on the answer of the API
C16_Witness ==
  /\ proc.phase = "running" /\ ~proc.apiKey /\ proc.tested = "failed"
  /\ IsCall /\ ~last.call.outcome.ok
  /\ last.reply.kind = "error"

\* ------------------------------------------------ claims on the registry
\* C17: at any point of a run the registry holds the three tools, and a listing
\* returns exactly these three in the order of registration: text generation,
\* translation, cultural analysis.
C17_RegistryFixed ==
  /\ tools = <<"sealion_generate_text", "sealion_translate", "sealion_cultural_analysis">>
  /\ last.kind = "list" =>
       /\ Len(last.listed) = 3
       /\ last.listed =
            <<"sealion_generate_text", "sealion_translate", "sealion_cultural_analysis">>

\* the tools have been listed after a window was used up by tool calls, while
\* a call was waiting for the upstream API
C17_Witness ==
  /\ last.kind = "list"
  /\ Len(last.listed) = 3
  /\ Len(requests) = maxRequests
  /\ pending # <<>>

\* --------------------------------------------- claims on the rapid-fire test
\* C18 as stated: when the 15 tools/list requests of the test have been sent
\* within one window, at least one of them was answered with 'Rate limit
\* exceeded'.
C18_AsStated ==
  burst.sent = BurstLength => burst.limited

\* ------------------------------------------------ claims on the limiter
\* C19: in any state of the rate limiter, getRemainingRequests() called right
\* after reset() returns the configured maxRequests.
C19_ResetThenRemaining ==
  (lim.op = "getRemainingRequests" /\ lim.prev = "reset") =>
    /\ lim.before = <<>>
    /\ lim.n = maxRequests

\* remaining() has returned maxRequests right after a reset, once the clock
\* had advanced
C19_Witness ==
  /\ lim.op = "getRemainingRequests" /\ lim.prev = "reset"
  /\ lim.n = maxRequests
  /\ now > 0
  /\ requests = <<>>

\* ---------------------------------------------------------------- C20
\* C20 as the specification states it: every tool rejects with InvalidParams
\* (a ZodError, hence a non-empty issue list) an argument object that holds a
\* field its schema does not declare, as the advertised
\* additionalProperties: false promises.
C20_AsStated ==
  (probe.fn = "parse" /\ probe.done) =>
    LET schema == inputSchemaOf(probe.input.name, probe.input.build)
        declared == {schema[k].name : k \in 1..Len(schema)}
    IN  (DOMAIN probe.input.args \ declared # {}) =>
          /\ probe.output.advertised.additionalProperties = FALSE
          /\ probe.output.parsed.issues # <<>>

\* ---------------------------------------------------------------- C21
\* C21: the clock never goes back; between two calls of getCurrentCount() with
\* no admission and no reset() in between, the later call returns at most
\* what the earlier one returned.
C21_CountNeverGrows ==
  (lim.watch = "count" /\ lim.op = "getCurrentCount" /\ lim.prior.n >= 0) =>
    lim.n <= lim.prior.n

\* a later getCurrentCount() has returned less than an earlier one that saw
\* requests in the window
C21_Witness ==
  /\ lim.watch = "count" /\ lim.op = "getCurrentCount"
  /\ lim.prior.n > 0
  /\ lim.n < lim.prior.n

\* ---------------------------------------------------------------- C22
\* C22: getTimeUntilReset() returns 0 on an empty history and otherwise
\* max(0, oldest + windowMs - now).  When it was called on a full history and
\* neither a reset() nor an admission has come since, an allowRequest() made
\* exactly that many ms after the call is admitted and one made earlier than
\* that is denied.
C22_TimeUntilReset ==
  /\ lim.op = "getTimeUntilReset" =>
        IF lim.before = <<>> THEN lim.n = 0
        ELSE \E oldest \in Range(lim.before) :
               /\ \A t \in Range(lim.before) : oldest <= t
               /\ lim.n = Max(0, oldest + windowMs - lim.at)
  /\ (lim.watch = "timer" /\ lim.op = "allowRequest" /\ lim.prior.armed) =>
        /\ lim.at = lim.prior.at + lim.prior.n => lim.ok
        /\ lim.at < lim.prior.at + lim.prior.n => ~lim.ok

\* a full limiter was asked for the delay, the delay was positive, and the
\* allowRequest() made exactly that much later has been admitted
C22_Witness ==
  /\ lim.watch = "timer" /\ lim.op = "allowRequest" /\ lim.prior.armed
  /\ lim.prior.n > 0
  /\ lim.at = lim.prior.at + lim.prior.n
  /\ lim.ok

\* ---------------------------------------------------------------- C23
\* C23 as the specification states it: when allowRequest, getCurrentCount,
\* getRemainingRequests or getTimeUntilReset returns, every timestamp t left
\* in the history has now - t < windowMs.
C23_AsStated ==
  (lim.op \in {"allowRequest", "getCurrentCount", "getRemainingRequests", "getTimeUntilReset"}
     /\ now = lim.at) =>
    \A t \in Range(requests) : lim.at - t < windowMs

\* C23: when allowRequest, getCurrentCount or getRemainingRequests returns,
\* every timestamp t left in the history has now - t < windowMs;
\* getTimeUntilReset returns with the history it found, expired timestamps
\* included.
C23_PrunedOnReturn ==
  /\ (lim.op \in {"allowRequest", "getCurrentCount", "getRemainingRequests"} /\ now = lim.at) =>
        \A t \in Range(requests) : lim.at - t < windowMs
  /\ (lim.op = "getTimeUntilReset" /\ now = lim.at) => requests = lim.before

\* a pruning query has returned after it dropped an expired timestamp and kept
\* a live one
C23_Witness ==
  /\ lim.op \in {"getCurrentCount", "getRemainingRequests"} /\ now = lim.at
  /\ requests # <<>>
  /\ Len(requests) < Len(lim.before)

\* ---------------------------------------------------------------- C24
\* C24: with several tool calls suspended at their upstream call, the history
\* changes only by one reservation into a free slot of the current window,
\* every call that gets suspended has made its own reservation, and the
\* timestamps of the current window never outnumber maxRequests.
C24_AtomicReserve ==
  /\ [](Len(InWindow(requests, now)) <= maxRequests)
  /\ [][(requests' # requests =>
           (/\ Len(InWindow(requests, now)) < maxRequests
            /\ requests' = Append(InWindow(requests, now), now)))
        /\ (Len(pending') > Len(pending) => requests' # requests)]_vars

\* two calls are suspended, the window is full, and a further call has been
\* denied
C24_Witness ==
  /\ Len(pending) = 2
  /\ Len(requests) = maxRequests
  /\ \A t \in Range(requests) : now - t < windowMs
  /\ last.kind = "call" /\ ~last.call.admitted

\* ---------------------------------------------------------------- C25
\* C25 as the specification states it: the request a validated text
\* generation sends to the API carries the max_tokens and the temperature the
\* caller gave, for every max_tokens in 1..4096 and every temperature in 0..2.
C25_AsStated ==
  (probe.fn = "parse" /\ probe.done /\ probe.output.upstream) =>
    /\ "max_tokens" \in DOMAIN probe.input.args =>
          probe.output.sent.max_tokens = probe.input.args.max_tokens.n
    /\ "temperature" \in DOMAIN probe.input.args =>
          probe.output.sent.temperature = probe.input.args.temperature.n

\* ---------------------------------------------------------------- C26
\* C26 as the specification states it: for each of the three tools, the text
\* the handler returns after the API has answered neither begins nor ends with
\* whitespace.
C26_AsStated ==
  (last.kind = "call" /\ last.call.state = "done" /\ last.reply.kind = "content") =>
    LET text == last.call.result
    IN  text # <<>> => ~IsSpace(text[1]) /\ ~IsSpace(text[Len(text)])

\* C26: translation and cultural analysis return the text of the API with the
\* whitespace around it removed and nothing else changed, and their success
\* payload neither begins nor ends with whitespace; text generation returns
\* the text of the API as it came.
C26_TrimmedExceptGeneration ==
  (last.kind = "call" /\ last.call.state = "done" /\ last.reply.kind = "content") =>
    LET text == last.call.result
        payload == last.call.outcome.text
        raw == last.reply.text
    IN  IF last.call.request.name = TEXT_GENERATION THEN text = raw
        ELSE /\ text # <<>> => ~IsSpace(text[1]) /\ ~IsSpace(text[Len(text)])
             /\ payload # <<>> => ~IsSpace(payload[1]) /\ ~IsSpace(payload[Len(payload)])
             /\ \E i \in 1..(Len(raw) + 1) :
                  /\ i + Len(text) - 1 <= Len(raw)
                  /\ text = SubSeq(raw, i, i + Len(text) - 1)
                  /\ \A k \in (1..(i - 1)) \cup ((i + Len(text))..Len(raw)) : IsSpace(raw[k])

\* a translation has returned less than the API sent: the whitespace around
\* the text is gone
C26_Witness ==
  /\ last.kind = "call" /\ last.call.state = "done" /\ last.reply.kind = "content"
  /\ last.call.request.name = TRANSLATE
  /\ IsSpace(last.reply.text[1])
  /\ Len(last.call.result) < Len(last.reply.text)
  /\ last.call.result # <<>>

\* ---------------------------------------------------------------- C27
\* C27 as the specification states it: every admitted tool call eventually
\* returns a success payload or a structured error, whatever the API does:
\* a call that is suspended at its upstream call is eventually no longer
\* suspended.
C27_AsStated == (pending # <<>>) ~> (pending = <<>>)

\* ---------------------------------------------------------------- C28
\* C28: the clock never goes back; as long as reset() has not been called,
\* the admissions whose times lie in the window (now - windowMs, now] that
\* ends at the latest admission number at most maxRequests.  More than
\* maxRequests admissions in one window occur only after a reset().
C28_WindowBound ==
  lim.watch = "window" =>
    /\ (lim.op = "allowRequest" /\ lim.ok) =>
          \A t \in Range(lim.obs.log) : t <= lim.at /\ t > lim.at - windowMs
    /\ ~lim.obs.wasReset => Len(lim.obs.log) <= maxRequests
    /\ Len(lim.obs.log) > maxRequests => lim.obs.wasReset

\* without any reset, a window that began at an earlier instant holds
\* maxRequests admissions and a further allowRequest() has been denied
C28_Witness ==
  /\ lim.watch = "window" /\ ~lim.obs.wasReset
  /\ lim.op = "allowRequest" /\ ~lim.ok
  /\ Len(lim.obs.log) = maxRequests
  /\ lim.obs.log[1] < lim.at

C30_HistoryBounded ==
  /\ Len(requests) <= maxRequests
  /\ lim.op = "getRemainingRequests" =>
        LET counted == {i \in 1..Len(lim.before) : lim.before[i] > lim.at - windowMs}
        IN  lim.n = maxRequests - Cardinality(counted)

\* the clock was set back behind a stored timestamp, the history is full and
\* getRemainingRequests() has returned 0
C30_Witness ==
  /\ lim.op = "getRemainingRequests" /\ lim.n = 0
  /\ maxRequests > 0
  /\ Len(requests) = maxRequests
  /\ \E t \in Range(requests) : t > lim.at

====
